---- MODULE Spec2Model ----
(***************************************************************************)
(* A model of the video-library converter: the orchestrator               *)
(* process_media_library (conversion_utils.py) driving convert_file       *)
(* (ffmpeg_wrapper.py) over a small filesystem, with the external prober   *)
(* and encoder and every os.remove / os.rename as environment choices.     *)
(***************************************************************************)
EXTENDS Integers, Sequences, FiniteSets, TLC

\* Largest number of files the library holds when the run starts.
MaxFiles == 2

(***************************************************************************)
(* Paths.  A path is a directory and a file name; a file name is the      *)
(* sequence of its dot-separated components ("movie.temp.mp4" is          *)
(* <<"movie","temp","mp4">>), so that os.path.splitext is computed.       *)
(***************************************************************************)
RootDir == "lib"
SubDir == "lib/sub"

Join(d, n) == [dir |-> d, name |-> n]
Basename(p) == p.name
Dirname(p) == p.dir

NoPath == Join("", <<>>)

Front(s) == SubSeq(s, 1, Len(s) - 1)
Last(s) == s[Len(s)]

\* os.path.splitext on a name: (everything before the last dot, the last
\* component); a name without a dot has the empty extension.
SplitextBase(n) == IF Len(n) >= 2 THEN Front(n) ELSE n
SplitextExt(n) == IF Len(n) >= 2 THEN Last(n) ELSE ""

\* str.lower() on the strings of this model.
Lower(s) ==
    CASE s = "MP4" -> "mp4"
      [] s = "MKV" -> "mkv"
      [] s = "ENG" -> "eng"
      [] s = "Eng" -> "eng"
      [] OTHER -> s

LowerName(n) == [k \in 1..Len(n) |-> Lower(n[k])]
LowerPath(p) == Join(Lower(p.dir), LowerName(p.name))

VIDEO_EXTENSIONS == {"mkv", "avi", "mov", "ts", "mpg", "flv", "wmv", "mp4"}

\* convert_file: base + ".mp4" and base + ".temp.mp4"
FinalOf(p) == Join(p.dir, SplitextBase(p.name) \o <<"mp4">>)
TempOf(p) == Join(p.dir, SplitextBase(p.name) \o <<"temp", "mp4">>)

\* process_media_library: os.path.join(dir_path, splitext(base_name)[0] + ".mp4")
OrchFinalOf(p) == Join(Dirname(p), SplitextBase(Basename(p)) \o <<"mp4">>)

\* input_filepath.lower() == final_output_filepath.lower()
SameNameIgnoringCase(a, b) == LowerPath(a) = LowerPath(b)

\* The files a library may hold when the run starts.
InitPaths ==
    { Join(RootDir, <<"movie", "mkv">>),
      Join(RootDir, <<"movie", "mp4">>),
      Join(RootDir, <<"movie", "MP4">>),
      Join(RootDir, <<"movie", "temp", "mp4">>),
      Join(RootDir, <<"movie", "srt">>),
      Join(SubDir, <<"movie", "mkv">>) }

(***************************************************************************)
(* Media.  What ffprobe reports for a file: a sequence of stream          *)
(* descriptors.  NoKey stands for a key ffprobe left out of the JSON.     *)
(***************************************************************************)
NoKey == "<absent>"

Stream(i, t, c, l) == [index |-> i, codec_type |-> t, codec_name |-> c, language |-> l]

Catalogue(m) ==
    CASE m = "example" ->
            << Stream(0, "video", "h264", NoKey),
               Stream(1, "audio", "ac3", "fre"),
               Stream(2, "audio", "aac", "ENG"),
               Stream(3, "subtitle", "subrip", "eng") >>
      [] m = "novideo" -> << Stream(0, "audio", "mp3", "eng") >>
      [] m = "nocodec" ->
            << Stream(0, "video", "hevc", NoKey),
               Stream(1, "subtitle", NoKey, "eng") >>
      [] m = "hevcout" ->
            << Stream(0, "video", "hevc", NoKey),
               Stream(1, "audio", "aac", "eng") >>
      [] m = "h264out" ->
            << Stream(0, "video", "h264", NoKey),
               Stream(1, "audio", "aac", "eng") >>
      [] m = "foreign" ->
            << Stream(0, "video", "h264", NoKey),
               Stream(1, "audio", "ac3", "fre"),
               Stream(2, "subtitle", "hdmv_pgs_subtitle", "eng") >>
      [] OTHER -> << >>

\* What a library file may turn out to hold when it is probed, and what the
\* encoder may write when it exits 0.
SourceMedia == {"example", "novideo", "nocodec"}
OutputMedia == {"hevcout", "h264out", "garbage"}

\* A file: the library file its content comes from, its media ("unknown" for
\* a library file not yet probed, "garbage" for a truncated file), and whether
\* verify_output has returned true on it.
File(s, m, v) == [src |-> s, media |-> m, verified |-> v]


(***************************************************************************)
(* The pure functions of ffmpeg_wrapper.py.                                *)
(***************************************************************************)
None == "None"

\* A probe result: get_stream_info's return value (ok = FALSE is None) and why.
ProbeOk(m) == [ok |-> TRUE, why |-> "ok", streams |-> Catalogue(m)]
ProbeFailed(why) == [ok |-> FALSE, why |-> why, streams |-> << >>]
NoInfo == ProbeFailed("not probed")

\* stream.get('tags', {}).get('language', '').lower()
LangOf(st) == IF st.language = NoKey THEN "" ELSE Lower(st.language)

TEXT_SUBTITLE_CODECS == {"srt", "ass", "ssa", "subrip", "mov_text"}

\* One turn of the loop of determine_track_indices on stream st, from the
\* indices found so far; err is a KeyError raised by stream['codec_type'] or
\* stream['codec_name'].
TrackStep(acc, st) ==
    IF acc.err THEN acc
    ELSE IF st.codec_type = NoKey THEN [acc EXCEPT !.err = TRUE]
    ELSE IF st.codec_type = "audio" THEN
        IF LangOf(st) = "eng" /\ acc.audio = None
        THEN [acc EXCEPT !.audio = ToString(st.index)]
        ELSE acc
    ELSE IF st.codec_type = "subtitle" THEN
        IF LangOf(st) = "eng" THEN
            IF st.codec_name = NoKey THEN [acc EXCEPT !.err = TRUE]
            ELSE IF st.codec_name \in TEXT_SUBTITLE_CODECS /\ acc.sub = None
                 THEN [acc EXCEPT !.sub = ToString(st.index)]
                 ELSE acc
        ELSE acc
    ELSE acc

RECURSIVE TrackLoop(_, _, _)
TrackLoop(streams, k, acc) ==
    IF k > Len(streams) THEN acc
    ELSE TrackLoop(streams, k + 1, TrackStep(acc, streams[k]))

\* determine_track_indices(streams_info)
determine_track_indices(info) ==
    IF ~info.ok THEN [err |-> FALSE, audio |-> None, sub |-> None]
    ELSE TrackLoop(info.streams, 1, [err |-> FALSE, audio |-> None, sub |-> None])

\* The test verify_output applies to the re-probed streams.
HasHevcVideo(streams) ==
    \E k \in 1..Len(streams) :
        streams[k].codec_type = "video" /\ streams[k].codec_name = "hevc"

RECURSIVE JoinDots(_)
JoinDots(n) ==
    IF Len(n) = 0 THEN ""
    ELSE IF Len(n) = 1 THEN n[1]
    ELSE n[1] \o "." \o JoinDots(Tail(n))

\* A path as the string handed to the encoder.
PathStr(p) == p.dir \o "/" \o JoinDots(p.name)

TenBit(cfg, fmt) == IF cfg.h265_profile = "main10" THEN <<"-pix_fmt", fmt>> ELSE << >>

VideoArgs(cfg) ==
    LET q == ToString(cfg.quality_level)
        pr == cfg.h265_profile
    IN  IF cfg.gpu_type = "nvidia" THEN
            <<"-c:v", "hevc_nvenc", "-preset", "p5", "-cq", q, "-profile:v", pr>>
                \o TenBit(cfg, "p010le")
        ELSE IF cfg.gpu_type = "intel" THEN
            <<"-c:v", "hevc_qsv", "-preset:v", "medium", "-global_quality", q,
              "-profile:v", pr>> \o TenBit(cfg, "p010le")
        ELSE IF cfg.gpu_type = "amd" THEN
            <<"-c:v", "hevc_amf", "-rc", "cqp", "-qp_i", q, "-qp_p", q, "-qp_b", q,
              "-usage", "transcoding", "-profile", pr>> \o TenBit(cfg, "p010le")
        ELSE
            <<"-c:v", "libx265", "-preset", "medium", "-crf", q, "-profile:v", pr>>
                \o TenBit(cfg, "yuv420p10le")

AudioArgs(eng_audio_idx, cfg) ==
    (IF eng_audio_idx # None
        THEN <<"-map", "0:" \o eng_audio_idx>>
        ELSE <<"-map", "0:a:0?">>)
    \o (IF cfg.audio_codec = "copy"
        THEN <<"-c:a:0", "copy">>
        ELSE <<"-c:a:0", cfg.audio_codec, "-q:a:0", cfg.audio_quality>>)
    \o <<"-disposition:a:0", "default">>

\* Mutant of SubtitleArgs: with no subtitle selected, the first subtitle
\* stream is mapped if there is one.
SubtitleArgsBestEffort(eng_sub_idx) ==
    IF eng_sub_idx # None
    THEN <<"-map", "0:" \o eng_sub_idx, "-c:s:0", "mov_text", "-disposition:s:0", "default">>
    ELSE <<"-map", "0:s:0?", "-c:s:0", "mov_text">>

SubtitleArgs(eng_sub_idx) ==
    IF eng_sub_idx # None
    THEN <<"-map", "0:" \o eng_sub_idx, "-c:s:0", "mov_text", "-disposition:s:0", "default">>
    ELSE << >>

\* build_ffmpeg_command: the argument list (it has no path returning None).
build_ffmpeg_command(input, temp, info, eng_audio_idx, eng_sub_idx, cfg) ==
    <<"ffmpeg", "-y", "-i", PathStr(input)>>
    \o <<"-map", "0:v:0">> \o VideoArgs(cfg)
    \o AudioArgs(eng_audio_idx, cfg)
    \o SubtitleArgs(eng_sub_idx)
    \o <<"-map_chapters", "0">>
    \o <<"-movflags", "+faststart">>
    \o <<PathStr(temp)>>

\* "if not ffmpeg_cmd": an empty list is falsy.
NoCommand(cmd) == Len(cmd) = 0


(***************************************************************************)
(* State.                                                                  *)
(***************************************************************************)
VARIABLES
    fs,               \* the filesystem: existing path -> File
    fs0,              \* the filesystem when the run started
    tools,            \* which external binaries are on the PATH
    config,           \* the run's configuration (get_config_from_gui)
    pc,               \* where the worker thread stands
    files,            \* files_to_process_fullpaths
    i,                \* current_fileno (0 before the first file)
    processed_count, skipped_count, failed_count,
    events,           \* what the run has put on update_queue, in order
    results,          \* the summary process_media_library returns
    stream_info,      \* convert_file: the probe of the input
    ffmpeg_cmd,       \* convert_file: the synthesized command
    ret,              \* convert_file: "none", "True", "False", or "raised"
    ops,              \* the external calls made for the current file, in order
    encoderStarts,    \* how many encoder processes the run has started
    running,          \* how many encoder processes are alive
    previous,         \* the run before this one, if there was one
    taken,            \* how many entries of events the GUI thread has taken
    controls,         \* the state of the start button and the other controls
    current_pending_files,  \* the GUI's pending list (base names)
    processed_listbox \* the GUI's processed list

vars == <<fs, fs0, tools, config, pc, files, i, processed_count, skipped_count,
          failed_count, events, results, stream_info, ffmpeg_cmd, ret, ops,
          encoderStarts, running, previous, taken, controls,
          current_pending_files, processed_listbox>>

Exists(p) == p \in DOMAIN fs

Removed(f, p) == [q \in DOMAIN f \ {p} |-> f[q]]
Renamed(f, a, b) == [q \in (DOMAIN f \ {a}) \cup {b} |-> IF q = b THEN f[a] ELSE f[q]]
Written(f, p, c) == [q \in DOMAIN f \cup {p} |-> IF q = p THEN c ELSE f[q]]

Op(op, path, to, res) == [op |-> op, path |-> path, to |-> to, res |-> res]

Ev(type, path, text, cur, total, list) ==
    [type |-> type, path |-> path, text |-> text, cur |-> cur, total |-> total,
     list |-> list]

\* TextHandler.emit: a log record of the worker thread, put on update_queue.
\* The handler is on the root logger, whose level is INFO, so debug records
\* do not reach it.  Of the record only its level is kept.
LogLevels == {"INFO", "WARNING", "ERROR", "CRITICAL"}
emit(level) == Ev("log", NoPath, level, 0, 0, << >>)
IsLogRecord(e) == e.type = "log" /\ e.path = NoPath /\ e.text \in LogLevels

\* The log record of a logging call, as it is kept in the queue q: of a run
\* of log records that follow one another in the queue only the first is
\* kept.
LogRecord(q, level) ==
    IF Len(q) > 0 /\ IsLogRecord(q[Len(q)]) THEN << >> ELSE << emit(level) >>

\* queue.Queue(), main.py line 81: maxsize is left at its default
QueueMaxSize == 0

\* Mutant of QueueFull: the queue is created with maxsize 2.
QueueFullAtTwo(q) == Len(q) >= 2

\* Queue.put waits while the queue is full; only a queue with a positive
\* maxsize can be full.  Nothing is taken from the queue in this model, so
\* events is also what the queue holds at most.
QueueFull(q) == QueueMaxSize > 0 /\ Len(q) >= QueueMaxSize

\* The logging calls of a step: each record goes through TextHandler.emit,
\* which waits while the queue is full.
Emits(records) ==
    /\ Len(records) > 0 => ~QueueFull(events)
    /\ events' = events \o (IF Len(records) = 0 THEN << >>
                            ELSE LogRecord(events, records[1].text))

\* get_stream_info logs an error when it returns None (lines 21, 24, 27).
ProbeLog(r) == IF r.ok THEN << >> ELSE << emit("ERROR") >>

\* What build_ffmpeg_command logs (lines 242, 247, 265, 267).
BuildLog(eng_audio_idx, eng_sub_idx) ==
    << emit(IF eng_audio_idx # None THEN "INFO" ELSE "WARNING"), emit("INFO") >>

Input == files[i]

Perms(S) ==
    { f \in [1..Cardinality(S) -> S] : \A x \in S : \E k \in 1..Cardinality(S) : f[k] = x }

\* os.walk(root_dir), top down: the root's files in the order the OS lists
\* them, then the subdirectory's.
WalkOrders(paths) ==
    { a \o b : a \in Perms({p \in paths : p.dir = RootDir}),
               b \in Perms({p \in paths : p.dir = SubDir}) }

IsVideo(p) == Lower(SplitextExt(Basename(p))) \in VIDEO_EXTENSIONS

\* get_stream_info(path): what the prober can answer for the file as it is.
\* A library file's media is not known before its probe, and nothing probes
\* it twice in a run.
get_stream_info(p) ==
    IF ~tools.ffprobe THEN {ProbeFailed("notfound")}
    ELSE IF ~Exists(p) THEN {ProbeFailed("nonzero")}
    ELSE IF fs[p].media = "unknown"
         THEN {ProbeFailed("nonzero"), ProbeFailed("malformed")}
                 \cup {ProbeOk(m) : m \in SourceMedia}
    ELSE IF fs[p].media = "garbage" THEN {ProbeFailed("nonzero")}
    ELSE {ProbeOk(fs[p].media)}

\* Mutant of verify_output: the codec of the video stream is not checked.
verify_output_AnyStream(info) == info.ok

\* verify_output, given the re-probe of the file
verify_output(info) == info.ok /\ HasHevcVideo(info.streams)

HasVideo(streams) == \E k \in 1..Len(streams) : streams[k].codec_type = "video"

Configs ==
    { [gpu_type |-> "nvidia", quality_level |-> 23, h265_profile |-> "main",
       audio_codec |-> "aac", audio_quality |-> "2",
       skip_existing |-> s, dry_run |-> d] : s \in BOOLEAN, d \in BOOLEAN }

\* No run came before the first one.
NoRun == [ran |-> FALSE, dry_run |-> FALSE, scanned |-> 0, converted |-> 0]

Init ==
    /\ \E lib \in SUBSET InitPaths :
          /\ Cardinality(lib) <= MaxFiles
          /\ fs = [p \in lib |-> File(p, "unknown", FALSE)]
    /\ fs0 = fs
    /\ tools \in { [ffprobe |-> TRUE, ffmpeg |-> TRUE],
                   [ffprobe |-> FALSE, ffmpeg |-> TRUE],
                   [ffprobe |-> TRUE, ffmpeg |-> FALSE] }
    /\ config \in Configs
    /\ pc = "scan"
    /\ files = << >>
    /\ i = 0
    /\ processed_count = 0
    /\ skipped_count = 0
    /\ failed_count = 0
    /\ events = << >>
    /\ results = [returned |-> FALSE, scanned |-> 0, processed |-> 0, skipped |-> 0,
                  failed |-> 0]
    /\ stream_info = NoInfo
    /\ ffmpeg_cmd = << >>
    /\ ret = "none"
    /\ ops = << >>
    /\ encoderStarts = 0
    /\ running = 0
    /\ previous = NoRun
    /\ taken = 0
    /\ controls = "disabled"
    /\ current_pending_files = << >>
    /\ processed_listbox = << >>

orch == <<files, i, processed_count, skipped_count, failed_count, events, results>>
counters == <<files, i, processed_count, skipped_count, failed_count, results>>
env == <<fs0, tools, config>>
locals == <<stream_info, ffmpeg_cmd>>
gui == <<taken, controls, current_pending_files, processed_listbox>>

(***************************************************************************)
(* process_media_library                                                   *)
(***************************************************************************)
\* lines 9-32: the scan and the opening events
Scan ==
    /\ pc = "scan"
    /\ ~QueueFull(events)
    /\ \E order \in WalkOrders({p \in DOMAIN fs : IsVideo(p)}) :
          /\ files' = order
          /\ events' = events \o
                << Ev("status_update", NoPath, "scanning", 0, 0, << >>),
                   Ev("progress_max", NoPath, "", 0, Len(order), << >>),
                   Ev("pending_files_list", NoPath, "", 0, 0, order),
                   Ev("status_update", NoPath, "found", 0, Len(order), << >>),
                   Ev("log", NoPath, "found", 0, Len(order), << >>),
                   emit("INFO") >>
    /\ processed_count' = 0
    /\ skipped_count' = 0
    /\ failed_count' = 0
    /\ pc' = "loop"
    /\ UNCHANGED <<fs, env, i, results, locals, ret, ops, encoderStarts, running, previous, gui>>

\* lines 34-45: the next file of the loop and its start events
NextFile ==
    /\ pc = "loop"
    /\ i < Len(files)
    /\ ~QueueFull(events)
    /\ i' = i + 1
    /\ events' = events \o
          << Ev("file_processing_start", files[i + 1], "", 0, 0, << >>),
             Ev("status_update", files[i + 1], "processing", i + 1, Len(files), << >>) >>
    /\ ops' = << >>
    /\ pc' = "check"
    /\ UNCHANGED <<fs, env, files, processed_count, skipped_count, failed_count,
                   results, locals, ret, encoderStarts, running, previous, gui>>

\* Mutant of SkipCondition: the skip-existing setting is not consulted.
SkipConditionIgnored == FALSE

\* line 47
SkipCondition == config.skip_existing /\ Exists(OrchFinalOf(Input))

\* Mutant of SkipStatus: the comparison of input and final name is inverted.
SkipStatusInverted(input) ==
    IF SameNameIgnoringCase(input, OrchFinalOf(input))
    THEN "SKIPPED (exists)"
    ELSE "SKIPPED (already MP4)"

\* lines 48-55
SkipStatus(input) ==
    IF SameNameIgnoringCase(input, OrchFinalOf(input))
    THEN "SKIPPED (already MP4)"
    ELSE "SKIPPED (exists)"

\* Mutant of SkipExisting: the skipped file's outcome event is not put.
SkipExistingSilent ==
    /\ pc = "check"
    /\ SkipCondition
    /\ ~QueueFull(events)
    /\ skipped_count' = skipped_count + 1
    /\ events' = events \o LogRecord(events, "INFO") \o
          << Ev("log", Input, "skipping", 0, 0, << >>),
             Ev("progress_update", NoPath, "", i, Len(files), << >>) >>
    /\ pc' = "loop"
    /\ UNCHANGED <<fs, env, files, i, processed_count, failed_count, results, locals,
                   ret, ops, encoderStarts, running, previous, gui>>

\* lines 47-63: the skip-existing branch
SkipExisting ==
    /\ pc = "check"
    /\ SkipCondition
    /\ ~QueueFull(events)
    /\ skipped_count' = skipped_count + 1
    /\ events' = events \o LogRecord(events, "INFO") \o
          << Ev("log", Input, "skipping", 0, 0, << >>),
             Ev("file_processed_status", Input, SkipStatus(Input), 0, 0, << >>),
             Ev("progress_update", NoPath, "", i, Len(files), << >>) >>
    /\ pc' = "loop"
    /\ UNCHANGED <<fs, env, files, i, processed_count, failed_count, results, locals,
                   ret, ops, encoderStarts, running, previous, gui>>

\* Mutant of EntryPoint: the dry-run flag is not consulted.
EntryPointIgnoringDryRun(cfg) == "probe"

\* convert_file line 95: the dry-run branch or the real pipeline
EntryPoint(cfg) == IF cfg.dry_run THEN "dry_probe" ELSE "probe"

\* lines 65-70 and convert_file lines 88-95: the call
CallConvert ==
    /\ pc = "check"
    /\ ~SkipCondition
    /\ ~QueueFull(events)
    /\ stream_info' = NoInfo
    /\ ffmpeg_cmd' = << >>
    /\ ret' = "none"
    /\ pc' = EntryPoint(config)
    /\ Emits(<< emit("INFO"), emit("INFO") >>
             \o (IF EntryPoint(config) = "dry_probe"
                 THEN << emit("INFO"),
                         emit("INFO") >>
                 ELSE << >>))
    /\ UNCHANGED <<fs, env, counters, ops, encoderStarts, running, previous, gui>>

\* lines 71-76: the status of a pass that returned
StatusOf(r) == IF r = "True" THEN "CONVERTED" ELSE "FAILED"

\* Mutant of AfterConvert: the except branch does not count the file as
\* failed (line 81 left out).
AfterConvertErrorUncounted ==
    /\ pc \in {"returned", "raised"}
    /\ ~QueueFull(events)
    /\ IF pc = "raised"
       THEN /\ failed_count' = failed_count
            /\ processed_count' = processed_count
            /\ events' = events \o LogRecord(events, "ERROR") \o
                  << Ev("log", Input, "ERROR", 0, 0, << >>),
                     Ev("file_processed_status", Input, "ERROR", 0, 0, << >>),
                     Ev("progress_update", NoPath, "", i, Len(files), << >>) >>
       ELSE /\ processed_count' = processed_count + (IF ret = "True" THEN 1 ELSE 0)
            /\ failed_count' = failed_count + (IF ret = "True" THEN 0 ELSE 1)
            /\ events' = events \o
                  << Ev("file_processed_status", Input, StatusOf(ret), 0, 0, << >>),
                     Ev("progress_update", NoPath, "", i, Len(files), << >>) >>
    /\ pc' = "loop"
    /\ UNCHANGED <<fs, env, files, i, skipped_count, results, locals, ret, ops,
                   encoderStarts, running, previous, gui>>

\* Mutant of AfterConvert: no "except Exception" around the call, so an
\* exception that escapes convert_file ends the worker thread.
AfterConvertNoHandler ==
    /\ pc = "returned"
    /\ ~QueueFull(events)
    /\ processed_count' = processed_count + (IF ret = "True" THEN 1 ELSE 0)
    /\ failed_count' = failed_count + (IF ret = "True" THEN 0 ELSE 1)
    /\ events' = events \o
          << Ev("file_processed_status", Input, StatusOf(ret), 0, 0, << >>),
             Ev("progress_update", NoPath, "", i, Len(files), << >>) >>
    /\ pc' = "loop"
    /\ UNCHANGED <<fs, env, files, i, skipped_count, results, locals, ret, ops,
                   encoderStarts, running, previous, gui>>

\* Mutant of AfterConvert: the except branch reports the file itself and then
\* falls through to the common report.
AfterConvertDoubleReport ==
    /\ pc \in {"returned", "raised"}
    /\ ~QueueFull(events)
    /\ IF pc = "raised"
       THEN /\ failed_count' = failed_count + 1
            /\ processed_count' = processed_count
            /\ events' = events \o LogRecord(events, "ERROR") \o
                  << Ev("log", Input, "ERROR", 0, 0, << >>),
                     Ev("file_processed_status", Input, "ERROR", 0, 0, << >>),
                     Ev("progress_update", NoPath, "", i, Len(files), << >>),
                     Ev("file_processed_status", Input, "ERROR", 0, 0, << >>),
                     Ev("progress_update", NoPath, "", i, Len(files), << >>) >>
       ELSE /\ processed_count' = processed_count + (IF ret = "True" THEN 1 ELSE 0)
            /\ failed_count' = failed_count + (IF ret = "True" THEN 0 ELSE 1)
            /\ events' = events \o
                  << Ev("file_processed_status", Input, StatusOf(ret), 0, 0, << >>),
                     Ev("progress_update", NoPath, "", i, Len(files), << >>) >>
    /\ pc' = "loop"
    /\ UNCHANGED <<fs, env, files, i, skipped_count, results, locals, ret, ops,
                   encoderStarts, running, previous, gui>>

\* lines 69-86: the return of convert_file, or the exception that escaped it
AfterConvert ==
    /\ pc \in {"returned", "raised"}
    /\ ~QueueFull(events)
    /\ IF pc = "raised"
       THEN /\ failed_count' = failed_count + 1
            /\ processed_count' = processed_count
            /\ events' = events \o LogRecord(events, "ERROR") \o
                  << Ev("log", Input, "ERROR", 0, 0, << >>),
                     Ev("file_processed_status", Input, "ERROR", 0, 0, << >>),
                     Ev("progress_update", NoPath, "", i, Len(files), << >>) >>
       ELSE /\ processed_count' = processed_count + (IF ret = "True" THEN 1 ELSE 0)
            /\ failed_count' = failed_count + (IF ret = "True" THEN 0 ELSE 1)
            /\ events' = events \o
                  << Ev("file_processed_status", Input, StatusOf(ret), 0, 0, << >>),
                     Ev("progress_update", NoPath, "", i, Len(files), << >>) >>
    /\ pc' = "loop"
    /\ UNCHANGED <<fs, env, files, i, skipped_count, results, locals, ret, ops,
                   encoderStarts, running, previous, gui>>

\* lines 88-104: the summary and the closing events
Finish ==
    /\ pc = "loop"
    /\ i >= Len(files)
    /\ ~QueueFull(events)
    /\ results' = [returned |-> TRUE, scanned |-> Len(files),
                   processed |-> processed_count, skipped |-> skipped_count,
                   failed |-> failed_count]
    /\ events' = events \o LogRecord(events, "INFO") \o
          << Ev("conversion_complete", NoPath, "summary", 0, Len(files), << >>) >>
          \o (IF Len(files) > 0
              THEN << Ev("progress_update", NoPath, "", Len(files), Len(files), << >>) >>
              ELSE << >>)
    /\ pc' = "done"
    /\ UNCHANGED <<fs, env, files, i, processed_count, skipped_count, failed_count,
                   locals, ret, ops, encoderStarts, running, previous, gui>>

\* The program is started a second time on the same root, with skip-existing
\* on, once a run that was not a dry run is over and has converted every
\* candidate; the files are as that run left them.  (Other second runs are
\* not part of the model.)
start_conversion_thread ==
    /\ pc = "done"
    /\ ~previous.ran
    /\ ~config.dry_run
    /\ processed_count = Len(files)
    /\ previous' = [ran |-> TRUE, dry_run |-> config.dry_run, scanned |-> Len(files),
                    converted |-> processed_count]
    /\ config' = [config EXCEPT !.skip_existing = TRUE]
    /\ fs0' = fs
    /\ pc' = "scan"
    /\ files' = << >>
    /\ i' = 0
    /\ processed_count' = 0
    /\ skipped_count' = 0
    /\ failed_count' = 0
    /\ events' = << >>
    /\ results' = [returned |-> FALSE, scanned |-> 0, processed |-> 0, skipped |-> 0,
                   failed |-> 0]
    /\ stream_info' = NoInfo
    /\ ffmpeg_cmd' = << >>
    /\ ret' = "none"
    /\ ops' = << >>
    /\ encoderStarts' = 0
    /\ taken' = 0
    /\ controls' = "disabled"
    /\ current_pending_files' = << >>
    /\ processed_listbox' = << >>
    /\ UNCHANGED <<fs, tools, running>>

(***************************************************************************)
(* convert_file                                                            *)
(***************************************************************************)
Return(v) == pc' = "returned" /\ ret' = v
Raise == pc' = "raised" /\ ret' = "raised"
Logged(e) == ops' = Append(ops, e)

\* "if os.path.exists(temp_output_filepath): os.remove(temp_output_filepath)"
\* followed by "return False"; an OSError of os.remove goes to onError.
CleanupTemp(onError) ==
    IF Exists(TempOf(Input))
    THEN \/ /\ fs' = Removed(fs, TempOf(Input))
            /\ Logged(Op("remove", TempOf(Input), NoPath, "ok"))
            /\ Return("False")
         \/ /\ fs' = fs
            /\ Logged(Op("remove", TempOf(Input), NoPath, "error"))
            /\ IF onError = "raised" THEN Raise ELSE pc' = onError /\ ret' = ret
    ELSE /\ fs' = fs
         /\ ops' = ops
         /\ Return("False")

\* lines 95-102: dry run, the probe
DryProbe ==
    /\ pc = "dry_probe"
    /\ \E r \in get_stream_info(Input) :
          /\ stream_info' = r
          /\ Logged(Op("probe", Input, NoPath, r.why))
          /\ Emits(ProbeLog(r) \o
                   (IF ~r.ok THEN << emit("WARNING") >> ELSE << >>))
          /\ IF ~r.ok THEN Return("True") ELSE pc' = "dry_build" /\ ret' = ret
    /\ UNCHANGED <<fs, env, counters, ffmpeg_cmd, encoderStarts, running, previous, gui>>

\* Mutant of DryBuild: the dry run logs a simplified command, built without
\* the selected tracks.
DryBuildSimplified ==
    /\ pc = "dry_build"
    /\ LET sel == determine_track_indices(stream_info)
           cmd == build_ffmpeg_command(Input, TempOf(Input), stream_info,
                                       None, None, config)
       IN  IF sel.err
           THEN Raise /\ ffmpeg_cmd' = ffmpeg_cmd /\ Emits(<< >>)
           ELSE /\ ffmpeg_cmd' = cmd
                /\ Emits(<< emit("INFO"), emit("INFO") >>
                         \o BuildLog(None, None)
                         \o (IF NoCommand(cmd)
                             THEN << emit("ERROR") >>
                             ELSE << emit("INFO"), emit("INFO") >>))
                /\ Return(IF NoCommand(cmd) THEN "False" ELSE "True")
    /\ UNCHANGED <<fs, env, counters, stream_info, ops, encoderStarts, running, previous, gui>>

\* lines 104-124: dry run, selection and command
DryBuild ==
    /\ pc = "dry_build"
    /\ LET sel == determine_track_indices(stream_info)
           cmd == build_ffmpeg_command(Input, TempOf(Input), stream_info,
                                       sel.audio, sel.sub, config)
       IN  IF sel.err
           THEN Raise /\ ffmpeg_cmd' = ffmpeg_cmd /\ Emits(<< >>)
           ELSE /\ ffmpeg_cmd' = cmd
                /\ Emits(<< emit("INFO"), emit("INFO") >>
                         \o BuildLog(sel.audio, sel.sub)
                         \o (IF NoCommand(cmd)
                             THEN << emit("ERROR") >>
                             ELSE << emit("INFO"), emit("INFO") >>))
                /\ Return(IF NoCommand(cmd) THEN "False" ELSE "True")
    /\ UNCHANGED <<fs, env, counters, stream_info, ops, encoderStarts, running, previous, gui>>

\* Mutant of Probe: the pass goes on after a failed probe.
ProbeContinues ==
    /\ pc = "probe"
    /\ \E r \in get_stream_info(Input) :
          /\ stream_info' = r
          /\ Logged(Op("probe", Input, NoPath, r.why))
          /\ Emits(ProbeLog(r))
          /\ pc' = "build" /\ ret' = ret
    /\ UNCHANGED <<fs, env, counters, ffmpeg_cmd, encoderStarts, running, previous, gui>>

\* lines 126-129
Probe ==
    /\ pc = "probe"
    /\ \E r \in get_stream_info(Input) :
          /\ stream_info' = r
          /\ Logged(Op("probe", Input, NoPath, r.why))
          /\ Emits(ProbeLog(r) \o
                   (IF ~r.ok THEN << emit("ERROR") >> ELSE << >>))
          /\ IF ~r.ok THEN Return("False") ELSE pc' = "build" /\ ret' = ret
    /\ UNCHANGED <<fs, env, counters, ffmpeg_cmd, encoderStarts, running, previous, gui>>

\* lines 131-138
SelectBuild ==
    /\ pc = "build"
    /\ LET sel == determine_track_indices(stream_info)
           cmd == build_ffmpeg_command(Input, TempOf(Input), stream_info,
                                       sel.audio, sel.sub, config)
       IN  IF sel.err
           THEN Raise /\ ffmpeg_cmd' = ffmpeg_cmd /\ Emits(<< >>)
           ELSE /\ ffmpeg_cmd' = cmd
                /\ Emits(BuildLog(sel.audio, sel.sub)
                         \o << emit(IF NoCommand(cmd) THEN "ERROR" ELSE "INFO") >>)
                /\ IF NoCommand(cmd) THEN Return("False")
                   ELSE pc' = "rm_stale" /\ ret' = ret
    /\ UNCHANGED <<fs, env, counters, stream_info, ops, encoderStarts, running, previous, gui>>

\* Mutant of RemoveStaleTemp: a file found at the temp path is left there.
RemoveStaleTempSkipped ==
    /\ pc = "rm_stale"
    /\ pc' = "encode"
    /\ Emits(<< >>)
    /\ UNCHANGED <<fs, env, counters, locals, ret, ops, encoderStarts, running, previous, gui>>

\* lines 142-144
RemoveStaleTemp ==
    /\ pc = "rm_stale"
    /\ IF Exists(TempOf(Input))
       THEN \/ /\ fs' = Removed(fs, TempOf(Input))
               /\ Logged(Op("remove", TempOf(Input), NoPath, "ok"))
               /\ pc' = "encode"
            \/ /\ fs' = fs
               /\ Logged(Op("remove", TempOf(Input), NoPath, "error"))
               /\ pc' = "except"
       ELSE fs' = fs /\ ops' = ops /\ pc' = "encode"
    /\ Emits(IF Exists(TempOf(Input))
             THEN << emit("WARNING") >>
             ELSE << >>)
    /\ UNCHANGED <<env, counters, locals, ret, encoderStarts, running, previous, gui>>

\* Mutant of StartEncoder: the encoder process is spawned and not waited for.
StartEncoderDetached ==
    /\ pc = "encode"
    /\ \/ /\ ~tools.ffmpeg
          /\ Logged(Op("encode", Input, TempOf(Input), "notfound"))
          /\ Emits(<< emit("ERROR") >>)
          /\ Return("False")
          /\ UNCHANGED <<encoderStarts, running>>
       \/ /\ tools.ffmpeg
          /\ Logged(Op("start", Input, TempOf(Input), "ok"))
          /\ encoderStarts' = encoderStarts + 1
          /\ running' = running + 1
          /\ Emits(<< >>)
          /\ Return("True")
    /\ UNCHANGED <<fs, env, counters, locals, previous, gui>>

\* line 146, the start of subprocess.run: the encoder process is spawned, or
\* the binary is missing (FileNotFoundError, lines 195-197).
StartEncoder ==
    /\ pc = "encode"
    /\ \/ /\ ~tools.ffmpeg
          /\ Logged(Op("encode", Input, TempOf(Input), "notfound"))
          /\ Emits(<< emit("ERROR") >>)
          /\ Return("False")
          /\ UNCHANGED <<encoderStarts, running>>
       \/ /\ tools.ffmpeg
          /\ Logged(Op("start", Input, TempOf(Input), "ok"))
          /\ encoderStarts' = encoderStarts + 1
          /\ running' = running + 1
          /\ Emits(<< >>)
          /\ pc' = "encoding" /\ ret' = ret
    /\ UNCHANGED <<fs, env, counters, locals, previous, gui>>

\* line 146, the rest of subprocess.run, with lines 148 and 187: the call
\* returns when the encoder process has exited.  "-map 0:v:0" makes the
\* encoder fail on an input without a video stream.
RunEncoder ==
    /\ pc = "encoding"
    /\ \/ /\ HasVideo(stream_info.streams)
          /\ Exists(Input)
          /\ \E m \in OutputMedia :
                fs' = Written(fs, TempOf(Input), File(fs[Input].src, m, FALSE))
          /\ Logged(Op("encode", Input, TempOf(Input), "exit0"))
          /\ Emits(<< emit("INFO") >>)
          /\ pc' = "verify"
       \/ /\ \/ fs' = fs
             \/ /\ Exists(Input)
                /\ fs' = Written(fs, TempOf(Input), File(fs[Input].src, "garbage", FALSE))
          /\ Logged(Op("encode", Input, TempOf(Input), "exit1"))
          /\ Emits(<< emit("ERROR") >>)
          /\ pc' = "enc_fail"
    /\ running' = running - 1
    /\ UNCHANGED <<env, counters, locals, ret, encoderStarts, previous, gui>>

\* Mutant of Verify: the result of verify_output is not acted upon.
VerifyUngated ==
    /\ pc = "verify"
    /\ \E r \in get_stream_info(TempOf(Input)) :
          /\ ops' = ops \o << Op("probe", TempOf(Input), NoPath, r.why),
                             Op("verify", TempOf(Input), NoPath,
                                IF verify_output(r) THEN "true" ELSE "false") >>
          /\ Emits(ProbeLog(r) \o
                   (IF verify_output(r)
                    THEN << emit("INFO") >>
                    ELSE << emit("ERROR"), emit("ERROR") >>))
          /\ IF verify_output(r)
             THEN /\ fs' = [fs EXCEPT ![TempOf(Input)].verified = TRUE]
                  /\ pc' = "replace"
             ELSE /\ fs' = fs
                  /\ pc' = "replace"
    /\ UNCHANGED <<env, counters, locals, ret, encoderStarts, running, previous, gui>>

\* line 151 (verify_output, lines 62-81)
Verify ==
    /\ pc = "verify"
    /\ \E r \in get_stream_info(TempOf(Input)) :
          /\ ops' = ops \o << Op("probe", TempOf(Input), NoPath, r.why),
                             Op("verify", TempOf(Input), NoPath,
                                IF verify_output(r) THEN "true" ELSE "false") >>
          /\ Emits(ProbeLog(r) \o
                   (IF verify_output(r)
                    THEN << emit("INFO") >>
                    ELSE << emit("ERROR"), emit("ERROR") >>))
          /\ IF verify_output(r)
             THEN /\ fs' = [fs EXCEPT ![TempOf(Input)].verified = TRUE]
                  /\ pc' = "replace"
             ELSE /\ fs' = fs
                  /\ pc' = "verify_fail"
    /\ UNCHANGED <<env, counters, locals, ret, encoderStarts, running, previous, gui>>

\* Mutant of VerifyFailed: the refused temp file is not removed.
VerifyFailedNoCleanup ==
    /\ pc = "verify_fail"
    /\ Return("False")
    /\ UNCHANGED <<fs, env, orch, locals, ops, encoderStarts, running, previous, gui>>

\* lines 152-154
VerifyFailed ==
    /\ pc = "verify_fail"
    /\ CleanupTemp("except")
    /\ UNCHANGED <<env, orch, locals, encoderStarts, running, previous, gui>>

\* Mutant of KeepsOriginal: the os.remove(input_filepath) commented out at
\* line 172 is executed, so an input that is already the MP4 is removed too.
KeepsOriginalNever(input) == FALSE

\* line 159: is the input already the final MP4?
KeepsOriginal(input) == SameNameIgnoringCase(input, FinalOf(input))

\* lines 158-176
RemoveOriginal ==
    /\ pc = "replace"
    /\ IF Exists(Input) /\ ~KeepsOriginal(Input)
       THEN \/ /\ fs' = Removed(fs, Input)
               /\ Logged(Op("remove", Input, NoPath, "ok"))
               /\ pc' = "rename"
            \/ /\ fs' = fs
               /\ Logged(Op("remove", Input, NoPath, "error"))
               /\ pc' = "replace_err"
       ELSE fs' = fs /\ ops' = ops /\ pc' = "rename"
    /\ Emits(IF ~Exists(Input) THEN << >>
             ELSE IF KeepsOriginal(Input)
                  THEN << emit("INFO") >>
                  ELSE << emit("INFO") >>)
    /\ UNCHANGED <<env, counters, locals, ret, encoderStarts, running, previous, gui>>

\* lines 178-180
RenameTemp ==
    /\ pc = "rename"
    /\ \/ /\ Exists(TempOf(Input))
          /\ fs' = Renamed(fs, TempOf(Input), FinalOf(Input))
          /\ Logged(Op("rename", TempOf(Input), FinalOf(Input), "ok"))
          /\ Emits(<< emit("INFO") >>)
          /\ Return("True")
       \/ /\ fs' = fs
          /\ Logged(Op("rename", TempOf(Input), FinalOf(Input), "error"))
          /\ Emits(<< >>)
          /\ pc' = "replace_err" /\ ret' = ret
    /\ UNCHANGED <<env, counters, locals, encoderStarts, running, previous, gui>>

\* Mutant of ReplaceFailed: the temp file is not removed after a failed
\* replacement.
ReplaceFailedNoCleanup ==
    /\ pc = "replace_err"
    /\ Emits(<< emit("ERROR") >>)
    /\ Return("False")
    /\ UNCHANGED <<fs, env, counters, locals, ops, encoderStarts, running, previous, gui>>

\* lines 181-186
ReplaceFailed ==
    /\ pc = "replace_err"
    /\ Emits(<< emit("ERROR") >> \o
             (IF Exists(TempOf(Input))
              THEN << emit("WARNING") >>
              ELSE << >>))
    /\ CleanupTemp("except")
    /\ UNCHANGED <<env, counters, locals, encoderStarts, running, previous, gui>>

\* Mutant of EncoderFailed: the partial temp file is not removed.
EncoderFailedNoCleanup ==
    /\ pc = "enc_fail"
    /\ Return("False")
    /\ UNCHANGED <<fs, env, orch, locals, ops, encoderStarts, running, previous, gui>>

\* lines 187-194
EncoderFailed ==
    /\ pc = "enc_fail"
    /\ CleanupTemp("except")
    /\ UNCHANGED <<env, orch, locals, encoderStarts, running, previous, gui>>

\* lines 198-202: an OSError raised there escapes convert_file
UnexpectedError ==
    /\ pc = "except"
    /\ Emits(<< emit("CRITICAL") >>)
    /\ CleanupTemp("raised")
    /\ UNCHANGED <<env, counters, locals, encoderStarts, running, previous, gui>>

Next ==
    \/ Scan
    \/ NextFile
    \/ SkipExisting
    \/ CallConvert
    \/ DryProbe
    \/ DryBuild
    \/ Probe
    \/ SelectBuild
    \/ RemoveStaleTemp
    \/ StartEncoder
    \/ RunEncoder
    \/ Verify
    \/ VerifyFailed
    \/ RemoveOriginal
    \/ RenameTemp
    \/ ReplaceFailed
    \/ EncoderFailed
    \/ UnexpectedError
    \/ AfterConvert
    \/ Finish
    \/ start_conversion_thread

Spec == Init /\ [][Next]_vars

\* The worker thread keeps running until process_media_library returns, and
\* the external processes it waits for terminate.
FairSpec == Spec /\ WF_vars(Next)

(***************************************************************************)
(* Selection and synthesis on their own: a pass on the only candidate of  *)
(* a library, taken up right after a successful probe of it, over every   *)
(* backend, profile and audio codec the GUI offers.                       *)
(***************************************************************************)
BuildPaths ==
    { Join(RootDir, <<"movie", "mkv">>),
      Join(RootDir, <<"movie", "MP4">>),
      Join(SubDir, <<"movie", "mkv">>) }

BuildMedia == SourceMedia \cup {"hevcout", "foreign"}

BuildConfigs ==
    { [gpu_type |-> g, quality_level |-> 23, h265_profile |-> pr,
       audio_codec |-> a, audio_quality |-> "2",
       skip_existing |-> FALSE, dry_run |-> d] :
         g \in {"cpu", "nvidia", "intel", "amd"}, pr \in {"main", "main10"},
         a \in {"aac", "copy"}, d \in BOOLEAN }

BuildInit ==
    /\ \E p \in BuildPaths :
          /\ fs = [q \in {p} |-> File(p, "unknown", FALSE)]
          /\ files = << p >>
          /\ events =
                << Ev("status_update", NoPath, "scanning", 0, 0, << >>),
                   Ev("progress_max", NoPath, "", 0, 1, << >>),
                   Ev("pending_files_list", NoPath, "", 0, 0, << p >>),
                   Ev("status_update", NoPath, "found", 0, 1, << >>),
                   Ev("log", NoPath, "found", 0, 1, << >>),
                   emit("INFO"),
                   Ev("file_processing_start", p, "", 0, 0, << >>),
                   Ev("status_update", p, "processing", 1, 1, << >>),
                   emit("INFO") >>
          /\ ops = << Op("probe", p, NoPath, "ok") >>
    /\ fs0 = fs
    /\ tools = [ffprobe |-> TRUE, ffmpeg |-> TRUE]
    /\ config \in BuildConfigs
    /\ pc = (IF config.dry_run THEN "dry_build" ELSE "build")
    /\ i = 1
    /\ processed_count = 0
    /\ skipped_count = 0
    /\ failed_count = 0
    /\ results = [returned |-> FALSE, scanned |-> 0, processed |-> 0, skipped |-> 0,
                  failed |-> 0]
    /\ \E m \in BuildMedia : stream_info = ProbeOk(m)
    /\ ffmpeg_cmd = << >>
    /\ ret = "none"
    /\ encoderStarts = 0
    /\ running = 0
    /\ previous = NoRun
    /\ taken = 0
    /\ controls = "disabled"
    /\ current_pending_files = << >>
    /\ processed_listbox = << >>

BuildNext ==
    \/ DryBuild
    \/ SelectBuild

BuildSpec == BuildInit /\ [][BuildNext]_vars

(***************************************************************************)
(* The GUI thread (main.py): the start button and process_queue, which     *)
(* takes the events of the worker from update_queue one at a time.         *)
(***************************************************************************)
\* [os.path.basename(f) for f in data]
Basenames(list) == [k \in 1..Len(list) |-> Basename(list[k])]

\* list.index(x), 0 when x is not in the list
IndexOf(list, x) ==
    IF \E k \in 1..Len(list) : list[k] = x
    THEN CHOOSE k \in 1..Len(list) :
            list[k] = x /\ \A j \in 1..(k - 1) : list[j] # x
    ELSE 0

\* Mutant of RemoveFirst: nothing is taken off the pending list.
RemoveNothing(list, x) == list

\* "if x in list: idx = list.index(x); list.pop(idx)"
RemoveFirst(list, x) ==
    LET idx == IndexOf(list, x)
    IN  IF idx = 0 THEN list
        ELSE SubSeq(list, 1, idx - 1) \o SubSeq(list, idx + 1, Len(list))

\* The files a library may hold in the runs started from the GUI: two
\* directories with a file of the same name in each.
GuiPaths ==
    { Join(RootDir, <<"movie", "mp4">>),
      Join(SubDir, <<"movie", "mp4">>) }

\* The program after Application.__init__: no run has been started.
GuiInit ==
    /\ \E lib \in SUBSET GuiPaths :
          fs = [p \in lib |-> File(p, "unknown", FALSE)]
    /\ fs0 = fs
    /\ tools = [ffprobe |-> TRUE, ffmpeg |-> TRUE]
    /\ config \in Configs
    /\ pc = "idle"
    /\ files = << >>
    /\ i = 0
    /\ processed_count = 0
    /\ skipped_count = 0
    /\ failed_count = 0
    /\ events = << >>
    /\ results = [returned |-> FALSE, scanned |-> 0, processed |-> 0, skipped |-> 0,
                  failed |-> 0]
    /\ stream_info = NoInfo
    /\ ffmpeg_cmd = << >>
    /\ ret = "none"
    /\ ops = << >>
    /\ encoderStarts = 0
    /\ running = 0
    /\ previous = NoRun
    /\ taken = 0
    /\ controls = "normal"
    /\ current_pending_files = << >>
    /\ processed_listbox = << >>

\* Mutant of StartClicked: the controls are not disabled (line 255 left out).
StartClickedLeavesEnabled ==
    /\ controls = "normal"
    /\ pc = "idle" \/ (~previous.ran /\ config.dry_run)
    /\ controls' = controls
    /\ LET left == SubSeq(events, taken + 1, Len(events))
       IN  events' = left \o LogRecord(left, "INFO")
    /\ taken' = 0
    /\ current_pending_files' = << >>
    /\ processed_listbox' = << >>
    /\ previous' = IF pc = "idle" THEN previous
                   ELSE [ran |-> TRUE, dry_run |-> config.dry_run,
                         scanned |-> Len(files), converted |-> processed_count]
    /\ fs0' = fs
    /\ pc' = "scan"
    /\ files' = << >>
    /\ i' = 0
    /\ processed_count' = 0
    /\ skipped_count' = 0
    /\ failed_count' = 0
    /\ results' = [returned |-> FALSE, scanned |-> 0, processed |-> 0, skipped |-> 0,
                   failed |-> 0]
    /\ stream_info' = NoInfo
    /\ ffmpeg_cmd' = << >>
    /\ ret' = "none"
    /\ ops' = << >>
    /\ encoderStarts' = 0
    /\ UNCHANGED <<fs, tools, config, running>>

\* lines 245-270: the start button is pressed.  Only an enabled button can
\* be pressed; what is still in the queue stays there.  (The button is
\* pressed a second time only after a dry run, with the settings left as
\* they are; other second runs from the same window are not part of the
\* model.)
StartClicked ==
    /\ controls = "normal"
    /\ pc = "idle" \/ (~previous.ran /\ config.dry_run)
    /\ controls' = "disabled"
    /\ LET left == SubSeq(events, taken + 1, Len(events))
       IN  events' = left \o LogRecord(left, "INFO")
    /\ taken' = 0
    /\ current_pending_files' = << >>
    /\ processed_listbox' = << >>
    /\ previous' = IF pc = "idle" THEN previous
                   ELSE [ran |-> TRUE, dry_run |-> config.dry_run,
                         scanned |-> Len(files), converted |-> processed_count]
    /\ fs0' = fs
    /\ pc' = "scan"
    /\ files' = << >>
    /\ i' = 0
    /\ processed_count' = 0
    /\ skipped_count' = 0
    /\ failed_count' = 0
    /\ results' = [returned |-> FALSE, scanned |-> 0, processed |-> 0, skipped |-> 0,
                   failed |-> 0]
    /\ stream_info' = NoInfo
    /\ ffmpeg_cmd' = << >>
    /\ ret' = "none"
    /\ ops' = << >>
    /\ encoderStarts' = 0
    /\ UNCHANGED <<fs, tools, config, running>>

\* lines 275-324: process_queue takes one message and handles it.  Of an
\* entry of the processed list the status and the base name are kept.
process_queue ==
    /\ taken < Len(events)
    /\ LET msg == events[taken + 1]
       IN  /\ taken' = taken + 1
           /\ current_pending_files' =
                 (IF msg.type = "pending_files_list" THEN Basenames(msg.list)
                  ELSE IF msg.type \in {"file_processing_start", "file_processed_status"}
                       THEN RemoveFirst(current_pending_files, Basename(msg.path))
                       ELSE current_pending_files)
           /\ processed_listbox' =
                 (IF msg.type = "file_processed_status"
                  THEN Append(processed_listbox,
                              [status |-> msg.text, name |-> Basename(msg.path)])
                  ELSE processed_listbox)
           /\ controls' = (IF msg.type = "conversion_complete" THEN "normal" ELSE controls)
           /\ IF msg.type = "conversion_complete"
              THEN /\ ~QueueFull(events)
                   /\ events' = events \o LogRecord(events, "INFO")
              ELSE events' = events
    /\ UNCHANGED <<fs, env, pc, counters, locals, ret, ops, encoderStarts, running,
                   previous>>

\* The steps of the worker thread.
Worker ==
    \/ Scan
    \/ NextFile
    \/ SkipExisting
    \/ CallConvert
    \/ DryProbe
    \/ DryBuild
    \/ Probe
    \/ SelectBuild
    \/ RemoveStaleTemp
    \/ StartEncoder
    \/ RunEncoder
    \/ Verify
    \/ VerifyFailed
    \/ RemoveOriginal
    \/ RenameTemp
    \/ ReplaceFailed
    \/ EncoderFailed
    \/ UnexpectedError
    \/ AfterConvert
    \/ Finish

GuiNext ==
    \/ StartClicked
    \/ process_queue
    \/ Worker

\* The worker thread keeps running, and the Tk main loop calls process_queue
\* every 100 ms (lines 187 and 329).
GuiSpec == GuiInit /\ [][GuiNext]_vars /\ WF_vars(Worker) /\ WF_vars(process_queue)


(***************************************************************************)
(* Vocabulary of the properties.                                           *)
(***************************************************************************)
\* The worker is inside a non-dry-run pass of convert_file.
InPass ==
    pc \in {"probe", "build", "rm_stale", "encode", "encoding", "verify", "verify_fail",
            "replace", "rename", "replace_err", "enc_fail", "except"}

\* The pass is over: convert_file returned, or an exception escaped it.
PassOver == pc \in {"returned", "raised"}

Did(e) == \E k \in 1..Len(ops) : ops[k] = e

\* An os.remove or os.rename of the current pass raised.
FsError == \E k \in 1..Len(ops) : ops[k].op \in {"remove", "rename"} /\ ops[k].res = "error"

EncoderExited(res) == Did(Op("encode", Input, TempOf(Input), res))

\* verify_output returned false on the temp file in this pass.
VerifyRefused == Did(Op("verify", TempOf(Input), NoPath, "false"))
VerifyPassed == Did(Op("verify", TempOf(Input), NoPath, "true"))


\* The current file's original was neither removed nor renamed over.
OriginalUntouched ==
    /\ Exists(Input)
    /\ \A k \in 1..Len(ops) :
          /\ ~(ops[k].op = "remove" /\ ops[k].path = Input)
          /\ ~(ops[k].op = "rename" /\ ops[k].to = Input)

\* The file at p would pass verify_output whatever the prober answers / for
\* some answer of the prober (a library file's media is not known).
PassesVerify(p) == \A r \in get_stream_info(p) : r.ok /\ HasHevcVideo(r.streams)
MayPassVerify(p) == \E r \in get_stream_info(p) : r.ok /\ HasHevcVideo(r.streams)

StartIdx(p) ==
    { k \in 1..Len(events) :
        events[k].type = "file_processing_start" /\ events[k].path = p }
ProcIdx(p) ==
    { k \in 1..Len(events) :
        events[k].type = "file_processed_status" /\ events[k].path = p }
ProgressIdx(c) ==
    { k \in 1..Len(events) : events[k].type = "progress_update" /\ events[k].cur = c }
CompleteIdx == { k \in 1..Len(events) : events[k].type = "conversion_complete" }

Reported(p, status) == \E k \in ProcIdx(p) : events[k].text = status

\* The orchestrator has just finished with file i.
FileHandled == pc = "loop" /\ i >= 1

(***************************************************************************)
(* C1.  Replace step: whenever the original has been deleted when          *)
(* convert_file returns, a file exists at the final path.                  *)
(***************************************************************************)
C1_DeletedOriginalHasFinal ==
    (pc = "returned" /\ Did(Op("remove", Input, NoPath, "ok")) /\ ~Exists(Input))
        => Exists(FinalOf(Input))

(***************************************************************************)
(* C2.  At every point of a non-dry-run pass in which no filesystem call   *)
(* has failed, the original exists, or a file that passed verify_output    *)
(* exists at the temp path or at the final path.                           *)
(***************************************************************************)
C2_CrashLeavesOriginalOrVerified ==
    (InPass /\ ~FsError) =>
        \/ Exists(Input)
        \/ Exists(TempOf(Input)) /\ fs[TempOf(Input)].verified
        \/ Exists(FinalOf(Input)) /\ fs[FinalOf(Input)].verified

C4_EncoderFailure ==
    /\ (PassOver /\ EncoderExited("exit1")) => OriginalUntouched
    /\ (pc = "returned" /\ EncoderExited("exit1")) =>
            ret = "False" /\ ~Exists(TempOf(Input))
    /\ (FileHandled /\ EncoderExited("exit1")) =>
            /\ Reported(Input, "FAILED") \/ Reported(Input, "ERROR")
            /\ ~Reported(Input, "CONVERTED")
            /\ OriginalUntouched

C4_Witness ==
    /\ FileHandled /\ EncoderExited("exit1")
    /\ ops[Len(ops)] = Op("remove", TempOf(Input), NoPath, "ok")
    /\ Reported(Input, "FAILED")

(***************************************************************************)
(* C5.  As claimed: after the encoder exits 0 and verify_output refuses    *)
(* the temp file, the original is neither removed nor renamed over, the    *)
(* temp file is deleted, and the outcome is a failure.                     *)
(***************************************************************************)
C5_RefusedOutputIsDeleted ==
    (PassOver /\ VerifyRefused) =>
        /\ OriginalUntouched
        /\ ~Exists(TempOf(Input))
        /\ ret # "True"

(***************************************************************************)
(* C5, amended.  After the encoder exits 0 and verify_output refuses the   *)
(* temp file, the original is neither removed nor renamed over, the        *)
(* outcome is a failure, the deletion of the temp file is attempted, and   *)
(* no temp file is left when convert_file returns; it stays only when     *)
(* os.remove fails on it, and then the exception escapes convert_file.     *)
(***************************************************************************)
C5_RefusedOutputIsNotInstalled ==
    /\ (PassOver /\ VerifyRefused) =>
          /\ EncoderExited("exit0")
          /\ OriginalUntouched
          /\ ret # "True"
          /\ pc = "returned" => ~Exists(TempOf(Input))
          /\ ops[Len(ops)].op = "remove" /\ ops[Len(ops)].path = TempOf(Input)
          /\ Exists(TempOf(Input)) =>
                pc = "raised" /\ ops[Len(ops)] = Op("remove", TempOf(Input), NoPath, "error")
    /\ (FileHandled /\ VerifyRefused) =>
          /\ Reported(Input, "FAILED") \/ Reported(Input, "ERROR")
          /\ ~Reported(Input, "CONVERTED")
          /\ OriginalUntouched

C5_Witness ==
    /\ FileHandled /\ VerifyRefused
    /\ ops[Len(ops)] = Op("remove", TempOf(Input), NoPath, "ok")
    /\ Reported(Input, "FAILED")

(***************************************************************************)
(* C6.  In a dry run the encoder is never started and no file is removed,  *)
(* renamed or written: the filesystem stays as it was when the run began.  *)
(***************************************************************************)
C6_DryRunTouchesNothing ==
    config.dry_run =>
        /\ fs = fs0
        /\ encoderStarts = 0
        /\ \A k \in 1..Len(ops) : ops[k].op = "probe"

C6_Witness ==
    /\ config.dry_run /\ pc = "done"
    /\ \E k \in 1..Len(files) : Reported(files[k], "CONVERTED")
    /\ Len(ffmpeg_cmd) > 0


(***************************************************************************)
(* C7.  With skip-existing on, a candidate whose <base>.mp4 exists is not  *)
(* handed to the pipeline (no probe, no encoder, no file operation), the   *)
(* skipped counter goes up by one, and the outcome is "already MP4" when   *)
(* the candidate is that MP4 itself and "exists" when the candidate is     *)
(* not an MP4.                                                             *)
(***************************************************************************)
C7_SkipExistingSkipsPipeline ==
    [][ (pc = "check" /\ config.skip_existing /\ Exists(FinalOf(Input))) =>
          /\ pc' = "loop"
          /\ fs' = fs
          /\ ops' = << >>
          /\ encoderStarts' = encoderStarts
          /\ skipped_count' = skipped_count + 1
          /\ processed_count' = processed_count
          /\ failed_count' = failed_count
          /\ Cardinality(ProcIdx(Input))' = 1
          /\ Input = FinalOf(Input) => Reported(Input, "SKIPPED (already MP4)")'
          /\ Lower(SplitextExt(Basename(Input))) # "mp4" =>
                Reported(Input, "SKIPPED (exists)")' ]_vars

C7_Witness ==
    /\ FileHandled /\ config.skip_existing
    /\ Reported(Input, "SKIPPED (exists)")
    /\ Input # FinalOf(Input) /\ Exists(FinalOf(Input))
    /\ ops = << >>

(***************************************************************************)
(* C8.  Whatever happens to each file, the run goes through every          *)
(* candidate, emits the run-completed event and returns the summary.       *)
(***************************************************************************)
C8_RunAlwaysCompletes ==
    <>( /\ pc = "done"
        /\ results.returned
        /\ results.scanned = Len(files)
        /\ \A k \in 1..Len(files) : ProcIdx(files[k]) # {}
        /\ CompleteIdx # {} )

C8_Witness ==
    /\ pc = "done"
    /\ Len(files) = 2
    /\ Reported(files[1], "ERROR")
    /\ Reported(files[2], "FAILED") \/ Reported(files[2], "CONVERTED")
    /\ results.returned

(***************************************************************************)
(* C9.  Every scanned candidate gets exactly one file-processed event,     *)
(* after its file-processing-started event and before run-completed, and   *)
(* the candidates are reported in discovery order.                         *)
(***************************************************************************)
IsOutcome(e) == e.type = "file_processed_status"

C9_OneOutcomePerCandidateInOrder ==
    LET procs == SelectSeq(events, IsOutcome)
        handled == IF pc \in {"loop", "done"} THEN i ELSE IF i > 0 THEN i - 1 ELSE 0
    IN  /\ Len(procs) = handled
        /\ \A k \in 1..Len(procs) :
              /\ k <= Len(files)
              /\ procs[k].path = files[k]
              /\ Cardinality(ProcIdx(files[k])) = 1
              /\ \E a \in StartIdx(files[k]) : \A q \in ProcIdx(files[k]) : a < q
              /\ \A c \in CompleteIdx : \A q \in ProcIdx(files[k]) : q < c
        /\ CompleteIdx # {} => Len(procs) = Len(files)
        /\ pc = "done" => CompleteIdx # {}

C9_Witness ==
    /\ pc = "done"
    /\ Len(files) = 2
    /\ Reported(files[1], "FAILED")
    /\ Reported(files[2], "CONVERTED")
    /\ Cardinality(ProcIdx(files[1])) = 1 /\ Cardinality(ProcIdx(files[2])) = 1

(***************************************************************************)
(* C10.  As claimed: per candidate at most one file-processing-started     *)
(* event, at most one file-processed event and at most one progress event  *)
(* carrying the candidate's position.                                      *)
(***************************************************************************)
C10_AtMostOncePerKind ==
    \A k \in 1..Len(files) :
        /\ Cardinality(StartIdx(files[k])) <= 1
        /\ Cardinality(ProcIdx(files[k])) <= 1
        /\ Cardinality(ProgressIdx(k)) <= 1

(***************************************************************************)
(* C10, amended.  Per candidate at most one file-processing-started event  *)
(* and at most one file-processed event; at most one progress event        *)
(* carries the position of a candidate other than the last; the position   *)
(* of the last candidate is carried once by its own progress event and a   *)
(* second time by the closing progress(total,total) event, which is put    *)
(* right after run-completed.                                              *)
(***************************************************************************)
C10_AtMostOnceButClosingProgress ==
    /\ \A k \in 1..Len(files) :
          /\ Cardinality(StartIdx(files[k])) <= 1
          /\ Cardinality(ProcIdx(files[k])) <= 1
          /\ k < Len(files) => Cardinality(ProgressIdx(k)) <= 1
    /\ pc # "done" => Cardinality(ProgressIdx(Len(files))) <= 1
    /\ (pc = "done" /\ Len(files) > 0) =>
          /\ Cardinality(ProgressIdx(Len(files))) = 2
          /\ Len(events) \in ProgressIdx(Len(files))
          /\ Len(events) - 1 \in CompleteIdx

C10_Witness ==
    /\ pc = "done"
    /\ Len(files) = 2
    /\ Cardinality(ProgressIdx(2)) = 2
    /\ Cardinality(ProgressIdx(1)) = 1

(***************************************************************************)
(* C11.  Once the command of a pass has been built from a successful       *)
(* probe: the command is empty exactly when the probed descriptor set has  *)
(* no video stream, and in that case the encoder is not started and the    *)
(* pass returns failure; with a video stream there is a command.           *)
(***************************************************************************)
C11_NoCommandIffNoVideo ==
    ( /\ InPass \/ PassOver
      /\ pc \notin {"probe", "build"}
      /\ stream_info.ok
      /\ ~determine_track_indices(stream_info).err )
    => /\ NoCommand(ffmpeg_cmd) <=> ~HasVideo(stream_info.streams)
       /\ ~HasVideo(stream_info.streams) =>
             /\ ~Did(Op("start", Input, TempOf(Input), "ok"))
             /\ ~Did(Op("encode", Input, TempOf(Input), "notfound"))
             /\ pc = "returned" => ret = "False"

(***************************************************************************)
(* C12.  determine_track_indices on the probed descriptor sequence         *)
(* returns, as audio, the index of the first stream of kind audio whose    *)
(* language is "eng" ignoring case and, as subtitle, the index of the      *)
(* first stream of kind subtitle with language "eng" and a text-based      *)
(* codec, each absent when there is no such stream; a returned index       *)
(* names a stream of its kind.                                             *)
(***************************************************************************)
IsEnglish(st) == st.language # NoKey /\ Lower(st.language) = "eng"
EngAudio(st) == st.codec_type = "audio" /\ IsEnglish(st)
EngTextSubtitle(st) ==
    st.codec_type = "subtitle" /\ IsEnglish(st) /\ st.codec_name \in TEXT_SUBTITLE_CODECS

\* The index, as the string handed to the encoder, of the first of the
\* streams at the positions hits; None when there is none.
FirstIndex(streams, hits) ==
    IF hits = {} THEN None
    ELSE LET k == CHOOSE k \in hits : \A j \in hits : k <= j
         IN  ToString(streams[k].index)

EngAudioAt(streams) == { k \in 1..Len(streams) : EngAudio(streams[k]) }
EngTextSubtitleAt(streams) == { k \in 1..Len(streams) : EngTextSubtitle(streams[k]) }

KindOfIndex(streams, idx) ==
    { streams[k].codec_type : k \in { j \in 1..Len(streams) : ToString(streams[j].index) = idx } }

C12_FirstEnglishTracks ==
    (stream_info.ok /\ (InPass \/ PassOver) /\ pc \notin {"probe", "build"}) =>
        LET sel == determine_track_indices(stream_info)
            streams == stream_info.streams
        IN  /\ ~sel.err
            /\ sel.audio = FirstIndex(streams, EngAudioAt(streams))
            /\ sel.sub = FirstIndex(streams, EngTextSubtitleAt(streams))
            /\ sel.audio # None => KindOfIndex(streams, sel.audio) = {"audio"}
            /\ sel.sub # None => KindOfIndex(streams, sel.sub) = {"subtitle"}

(***************************************************************************)
(* C13.  In a second run with skip-existing on over the root as a run      *)
(* that was not a dry run and reported every candidate CONVERTED left it,  *)
(* no encoder is started, no file is probed, removed, renamed or written,  *)
(* and every candidate is reported as skipped.                             *)
(***************************************************************************)
IsSkipped(status) == status \in {"SKIPPED (exists)", "SKIPPED (already MP4)"}

C14_OneCandidateAtATime ==
    /\ running <= 1
    /\ running = 1 => pc = "encoding"
    /\ \A k \in 1..Len(files) :
          /\ (k < i) => Cardinality(ProcIdx(files[k])) = 1
          /\ (k > i) => StartIdx(files[k]) = {} /\ ProcIdx(files[k]) = {}
    /\ (InPass \/ PassOver \/ pc \in {"dry_probe", "dry_build"}) =>
          /\ i \in 1..Len(files)
          /\ Cardinality(StartIdx(Input)) = 1
          /\ ProcIdx(Input) = {}
    /\ \A k \in 1..Len(ops) :
          /\ i \in 1..Len(files)
          /\ ops[k].path \in {Input, TempOf(Input)}
          /\ ops[k].to \in {NoPath, TempOf(Input), FinalOf(Input)}

C14_Witness ==
    /\ pc = "encoding" /\ running = 1
    /\ i = 2
    /\ Reported(files[1], "CONVERTED")
    /\ Did(Op("start", Input, TempOf(Input), "ok"))

(***************************************************************************)
(* C15.  Although nothing is ever taken from update_queue, no put waits    *)
(* for ever: the run reaches the run-completed event and returns, with     *)
(* everything it has put still in the queue and the queue not full.        *)
(***************************************************************************)
C15_NeverWaitsForConsumer ==
    <>( /\ CompleteIdx # {}
        /\ results.returned
        /\ Len(events) >= 7
        /\ ~QueueFull(events) )

C15_Witness ==
    /\ pc = "done"
    /\ Len(files) = 2
    /\ CompleteIdx # {}
    /\ Len(events) >= 20
    /\ \E k \in 1..Len(events) : IsLogRecord(events[k]) /\ events[k].text = "INFO"
    /\ ~QueueFull(events)

(***************************************************************************)
(* C16.  A step of the pass that removes the original of a candidate       *)
(* whose final name differs from it is taken only from a state in which    *)
(* the encoder has exited 0, the temp file exists and verify_output has    *)
(* returned true on it.                                                    *)
(***************************************************************************)
C16_OriginalRemovedOnlyAfterVerify ==
    [][ ( /\ i \in 1..Len(files)
          /\ Input # FinalOf(Input)
          /\ Exists(Input)
          /\ Input \notin DOMAIN fs' )
        => /\ pc = "replace"
           /\ EncoderExited("exit0")
           /\ Exists(TempOf(Input))
           /\ VerifyPassed
           /\ fs[TempOf(Input)].verified ]_vars

C16_Witness ==
    /\ pc = "rename"
    /\ Input # FinalOf(Input)
    /\ ~Exists(Input)
    /\ ops[Len(ops)] = Op("remove", Input, NoPath, "ok")
    /\ EncoderExited("exit0") /\ VerifyPassed
    /\ Exists(TempOf(Input)) /\ fs[TempOf(Input)].verified

ReplaceStepFailed ==
    \/ Did(Op("remove", Input, NoPath, "error"))
    \/ Did(Op("rename", TempOf(Input), FinalOf(Input), "error"))

C18_ReplaceFailureCleansUp ==
    /\ (PassOver /\ ReplaceStepFailed) =>
          /\ ret # "True"
          /\ ops[Len(ops)].op = "remove" /\ ops[Len(ops)].path = TempOf(Input)
          /\ ops[Len(ops)].res = "ok" => ~Exists(TempOf(Input))
          /\ pc = "returned" => ret = "False" /\ ~Exists(TempOf(Input))
          /\ ~Did(Op("rename", TempOf(Input), FinalOf(Input), "ok"))
    /\ (FileHandled /\ ReplaceStepFailed) =>
          /\ Reported(Input, "FAILED") \/ Reported(Input, "ERROR")
          /\ ~Reported(Input, "CONVERTED")

C18_Witness ==
    /\ FileHandled
    /\ Did(Op("rename", TempOf(Input), FinalOf(Input), "error"))
    /\ ops[Len(ops)] = Op("remove", TempOf(Input), NoPath, "ok")
    /\ ~Exists(TempOf(Input))
    /\ Reported(Input, "FAILED")

(***************************************************************************)
(* C19.  A step that starts an encoder process is taken only in a pass     *)
(* that is not a dry run and from a state with no file at the temp path;   *)
(* a file that was at the temp path has been removed by the pass before.   *)
(***************************************************************************)
C19_NoTempWhenEncoderStarts ==
    [][ (running' = running + 1) =>
          /\ pc = "encode"
          /\ ~config.dry_run
          /\ ~Exists(TempOf(Input))
          /\ \A k \in 1..Len(ops) :
                (ops[k].op = "remove" /\ ops[k].path = TempOf(Input)) => ops[k].res = "ok" ]_vars

C19_Witness ==
    /\ pc = "encoding"
    /\ running = 1
    /\ Did(Op("remove", TempOf(Input), NoPath, "ok"))
    /\ ops[Len(ops)] = Op("start", Input, TempOf(Input), "ok")
    /\ ~Exists(TempOf(Input))

(***************************************************************************)
(* C20.  The external calls of a pass come in the order of the stages and  *)
(* each stage follows the success of the one before: the probe of the      *)
(* input is the first call; the encoder is started only after a            *)
(* successful probe and with a command built; the temp file is verified    *)
(* only after the encoder has exited 0; the original is removed and the    *)
(* temp file renamed only after verify_output has returned true.  After a  *)
(* failed probe nothing follows, and after an encoder failure or a refused *)
(* verification only removals of the temp file follow.                     *)
(***************************************************************************)
IsCleanup(e) == e.op = "remove" /\ e.path = TempOf(Input)
IsExecute(e) == e.op \in {"start", "encode"}
IsVerify(e) == e.op = "verify" \/ (e.op = "probe" /\ e.path = TempOf(Input))
IsReplace(e) == (e.op = "remove" /\ e.path = Input) \/ e.op = "rename"

C20_StagesInOrder ==
    \A k \in 1..Len(ops) :
        /\ (ops[k].op = "probe" /\ ops[k].path = Input) => k = 1
        /\ (k = 1) => ops[k].op = "probe" /\ ops[k].path = Input
        /\ (k > 1) => ops[1] = Op("probe", Input, NoPath, "ok") /\ ~config.dry_run
        /\ IsExecute(ops[k]) => Len(ffmpeg_cmd) > 0 /\ stream_info.ok
        /\ (ops[k].op = "encode" /\ ops[k].res # "notfound") =>
              ops[k - 1] = Op("start", Input, TempOf(Input), "ok")
        /\ IsVerify(ops[k]) =>
              \E j \in 1..(k - 1) : ops[j] = Op("encode", Input, TempOf(Input), "exit0")
        /\ IsReplace(ops[k]) =>
              \E j \in 1..(k - 1) : ops[j] = Op("verify", TempOf(Input), NoPath, "true")
        /\ \A j \in 1..(k - 1) :
              /\ IsExecute(ops[k]) => ~IsVerify(ops[j]) /\ ~IsReplace(ops[j])
              /\ IsVerify(ops[k]) => ~IsReplace(ops[j])
              /\ (ops[j].op = "encode" /\ ops[j].res # "exit0") => IsCleanup(ops[k])
              /\ ops[j] = Op("verify", TempOf(Input), NoPath, "false") => IsCleanup(ops[k])

C20_Witness ==
    /\ pc = "returned" /\ ret = "True"
    /\ Len(ops) = 7
    /\ ops[1] = Op("probe", Input, NoPath, "ok")
    /\ ops[2] = Op("start", Input, TempOf(Input), "ok")
    /\ ops[3] = Op("encode", Input, TempOf(Input), "exit0")
    /\ ops[5] = Op("verify", TempOf(Input), NoPath, "true")
    /\ ops[6] = Op("remove", Input, NoPath, "ok")
    /\ ops[7] = Op("rename", TempOf(Input), FinalOf(Input), "ok")

(***************************************************************************)
(* C21.  In every configuration, dry run or not: when the probe of the     *)
(* candidate's source file has failed (prober missing, non-zero exit or    *)
(* unparsable output), the orchestrator's step that closes the candidate   *)
(* reports a failure for it, adds one to the failed counter, leaves the    *)
(* converted counter alone and goes back to the loop.                      *)
(***************************************************************************)
SourceProbeFailed ==
    /\ Len(ops) >= 1
    /\ ops[1].op = "probe" /\ ops[1].path = Input
    /\ ops[1].res \in {"notfound", "nonzero", "malformed"}

C21_ProbeFailureMarksFailed ==
    [][ (PassOver /\ SourceProbeFailed /\ pc' = "loop") =>
          /\ failed_count' = failed_count + 1
          /\ processed_count' = processed_count
          /\ skipped_count' = skipped_count
          /\ Reported(Input, "FAILED")' ]_vars

(***************************************************************************)
(* C22.  The counters are zero when a run starts, the first run and the    *)
(* one after it alike; every step that closes a candidate adds one to      *)
(* exactly one of converted, skipped and failed and no other step changes  *)
(* them, so that after k candidates converted + skipped + failed = k; the  *)
(* summary of a finished run has converted + skipped + failed = scanned.   *)
(***************************************************************************)
CounterSum == processed_count + skipped_count + failed_count

\* How many candidates the loop has finished with.
Handled == IF pc \in {"scan", "loop", "done"} THEN i ELSE i - 1

C22_CountersPartitionCandidates ==
    [][ /\ pc' = "scan" => CounterSum' = 0 /\ i' = 0
        /\ pc' # "scan" => CounterSum' = Handled'
        /\ Handled' = Handled + 1 =>
              /\ CounterSum' = CounterSum + 1
              /\ processed_count' >= processed_count
              /\ skipped_count' >= skipped_count
              /\ failed_count' >= failed_count
        /\ (Handled' = Handled /\ pc # "scan") =>
              <<processed_count, skipped_count, failed_count>>' =
              <<processed_count, skipped_count, failed_count>>
        /\ pc' = "done" =>
              /\ results'.returned
              /\ results'.scanned = Len(files')
              /\ results'.processed + results'.skipped + results'.failed
                    = results'.scanned
              /\ results'.processed = processed_count'
              /\ results'.skipped = skipped_count'
              /\ results'.failed = failed_count' ]_vars

C22_Witness ==
    /\ previous.ran /\ previous.converted = 2
    /\ pc = "done"
    /\ results.scanned >= 1
    /\ results.skipped = results.scanned
    /\ results.processed = 0 /\ results.failed = 0

(***************************************************************************)
(* C23.  The command a dry-run pass logs for a candidate is, argument for  *)
(* argument, the command a real pass builds and executes for the same      *)
(* path, the same probed descriptors and the same configuration: both are  *)
(* the value of build_ffmpeg_command on the pair determine_track_indices   *)
(* returns, and neither function reads anything but its arguments.         *)
(***************************************************************************)
\* The command of a real pass (lines 131-133) on input with the probe info.
RealCommand(input, info, cfg) ==
    LET sel == determine_track_indices(info)
    IN  build_ffmpeg_command(input, TempOf(input), info, sel.audio, sel.sub,
                             [cfg EXCEPT !.dry_run = FALSE])

\* The pass has built its command: in a dry run it has been logged, in a real
\* run it is the one handed to subprocess.run.
CommandBuilt ==
    /\ \/ config.dry_run /\ pc = "returned"
       \/ ~config.dry_run /\ InPass /\ pc \notin {"probe", "build"}
    /\ stream_info.ok
    /\ ~determine_track_indices(stream_info).err

RECURSIVE MapsFrom(_, _)
MapsFrom(cmd, k) ==
    IF k >= Len(cmd) THEN << >>
    ELSE IF cmd[k] = "-map" THEN << cmd[k + 1] >> \o MapsFrom(cmd, k + 2)
    ELSE MapsFrom(cmd, k + 1)

C24_MappingsInOrder ==
    Len(ffmpeg_cmd) > 0 =>
        LET sel == determine_track_indices(stream_info)
            maps == MapsFrom(ffmpeg_cmd, 1)
        IN  /\ Len(maps) = (IF sel.sub # None THEN 3 ELSE 2)
            /\ maps[1] = "0:v:0"
            /\ maps[2] = (IF sel.audio # None THEN "0:" \o sel.audio ELSE "0:a:0?")
            /\ sel.sub # None => maps[3] = "0:" \o sel.sub
            /\ Last(ffmpeg_cmd) = PathStr(TempOf(Input))
            /\ \A k \in 1..(Len(ffmpeg_cmd) - 1) : ffmpeg_cmd[k] # PathStr(TempOf(Input))

C24_Witness ==
    /\ ~config.dry_run /\ pc = "rm_stale"
    /\ config.gpu_type = "cpu" /\ config.audio_codec = "copy"
    /\ stream_info = ProbeOk("foreign")
    /\ MapsFrom(ffmpeg_cmd, 1) = << "0:v:0", "0:a:0?" >>
    /\ Last(ffmpeg_cmd) = PathStr(TempOf(Input))

(***************************************************************************)
(* C25.  The file the stale-temp cleanup of a pass removes at the          *)
(* candidate's temp path is not one of the candidates the scan of this     *)
(* run listed, and so every scanned candidate whose turn has not yet come  *)
(* or has just come still exists.                                          *)
(***************************************************************************)
Scanned(p) == \E k \in 1..Len(files) : files[k] = p

\* The pass has removed a file found at the temp path before the encoder
\* was started (lines 142-144).
StaleTempRemoved ==
    /\ Len(ops) >= 2
    /\ ops[2] = Op("remove", TempOf(Input), NoPath, "ok")

C25_CleanupSparesCandidates ==
    /\ StaleTempRemoved => ~Scanned(TempOf(Input))
    /\ \A k \in 1..Len(files) :
          (k > i \/ (k = i /\ pc = "check")) => Exists(files[k])

(***************************************************************************)
(* C26.  At the end of a first run that is not a dry run and in which      *)
(* every candidate was converted (so that no filesystem call has failed):  *)
(* of two candidates in one directory with the same base name, each has    *)
(* its original still in place or the final <base>.mp4 holds the output    *)
(* produced from it.                                                       *)
(***************************************************************************)
SameBase(p, q) ==
    /\ p # q
    /\ Dirname(p) = Dirname(q)
    /\ SplitextBase(Basename(p)) = SplitextBase(Basename(q))

\* The content of candidate p survives: untouched at its own path, or as the
\* converted file at its final path.
ContentKept(p) ==
    \/ Exists(p) /\ fs[p] = fs0[p]
    \/ Exists(FinalOf(p)) /\ fs[FinalOf(p)].src = p /\ fs[FinalOf(p)].verified

C26_SameBaseCandidatesKeepContent ==
    ( /\ pc = "done" /\ ~config.dry_run /\ ~previous.ran
      /\ \A k \in 1..Len(files) : Reported(files[k], "CONVERTED") )
    => \A a, b \in 1..Len(files) :
          SameBase(files[a], files[b]) => ContentKept(files[a]) /\ ContentKept(files[b])

(***************************************************************************)
(* C27.  When a pass of convert_file that is not a dry run is over,       *)
(* whatever its outcome, no file exists at the temp path of its input,    *)
(* also when a file was there before the pass began.                      *)
(***************************************************************************)
C27_NoTempAfterPass ==
    (PassOver /\ ~config.dry_run) => ~Exists(TempOf(Input))

(***************************************************************************)
(* C28.  When a run started from the GUI is over and process_queue has     *)
(* handled every event in the queue, the pending list is empty and the     *)
(* processed list has exactly one entry for each scanned candidate, in     *)
(* scan order, whatever the order in which worker and GUI thread took      *)
(* their steps and also when candidates in different directories have the  *)
(* same base name.                                                         *)
(***************************************************************************)
RunDrained == pc = "done" /\ taken = Len(events)

C28_ListsSettleAfterRun ==
    RunDrained =>
        /\ current_pending_files = << >>
        /\ Len(processed_listbox) = Len(files)
        /\ \A k \in 1..Len(files) :
              /\ processed_listbox[k].name = Basename(files[k])
              /\ Reported(files[k], processed_listbox[k].status)

C28_Witness ==
    /\ RunDrained
    /\ Len(files) = 2
    /\ Basename(files[1]) = Basename(files[2])
    /\ Dirname(files[1]) # Dirname(files[2])
    /\ Len(processed_listbox) = 2
    /\ processed_listbox[1].status = "CONVERTED"
    /\ processed_listbox[2].status = "FAILED"
    /\ current_pending_files = << >>

(***************************************************************************)
(* C29.  While the start button is enabled no worker does pipeline work:   *)
(* the button is disabled by the press that starts a run and enabled       *)
(* again only by process_queue handling the run-completed event of that    *)
(* run; once run-completed is in the queue the worker has returned, with   *)
(* no encoder alive and no further external call; and every run that was   *)
(* started leads to the button being enabled again.                        *)
(***************************************************************************)
WorkerAtRest == pc \in {"idle", "done"} /\ running = 0

C29_OneWorkerAtATime ==
    /\ [](controls = "normal" => WorkerAtRest)
    /\ [](CompleteIdx # {} => WorkerAtRest /\ results.returned)
    /\ [][ /\ (pc = "idle" /\ pc' # "idle") => controls' = "disabled"
           /\ (controls = "disabled" /\ controls' = "normal") =>
                 /\ taken' = taken + 1
                 /\ events[taken + 1].type = "conversion_complete"
                 /\ pc = "done"
           /\ (CompleteIdx # {} /\ CompleteIdx' # {}) =>
                 /\ fs' = fs /\ ops' = ops /\ encoderStarts' = encoderStarts ]_vars
    /\ (controls = "disabled" ~> controls = "normal")

C29_Witness ==
    /\ previous.ran /\ previous.scanned = 2
    /\ controls = "normal"
    /\ pc = "done"
    /\ taken = Len(events)
    /\ Len(files) = 2
    /\ Len(processed_listbox) = 2

====
